---- MODULE Spec2Model ----
(***************************************************************************)
(* Model of the stock/price synchronisation of seller.py (Ozon) and        *)
(* market.py (Yandex.Market): the catalog walk (get_offer_ids), the        *)
(* reconciliation (create_stocks, create_prices), the normalisers, the     *)
(* partitioner (divide) and the runs that compose them (upload_stocks,     *)
(* upload_prices, main).                                                   *)
(*                                                                         *)
(* Strings are sequences of one-character strings, so that int() and       *)
(* price_conversion() are computed character by character.  A cursor is a  *)
(* natural number, 0 standing for the empty string "" (or None).           *)
(***************************************************************************)
EXTENDS Integers, Sequences, FiniteSets, TLC

VARIABLES prog, catalog, watch_remnants, pc, campaign, last_id, product_list,
          offer_ids, known, stocks, prices, queue, calls, fetch_log, err, ret,
          lst, n, chunks

vars == <<prog, catalog, watch_remnants, pc, campaign, last_id, product_list,
          offer_ids, known, stocks, prices, queue, calls, fetch_log, err, ret,
          lst, n, chunks>>

\* ------------------------------------------------------------------ bounds
\* Longest remote catalog and longest snapshot that are enumerated.
MaxCatalog == 3
MaxSnapshot == 2
\* Items per page of the listing endpoints (the code asks for 1000 and 200).
PageLimit == 1
\* Updates per dispatched batch (the code uses 100, 900, 1000, 2000, 500).
StockBatch == 1
PriceBatch == 1
\* Longest list and largest chunk size handed to divide on its own.
MaxLst == 5
MaxN == 3

\* ----------------------------------------------------------------- helpers
Min(a, b) == IF a < b THEN a ELSE b

Range(s) == {s[i] : i \in 1..Len(s)}

RECURSIVE Flatten(_)
Flatten(ss) == IF ss = <<>> THEN <<>> ELSE Head(ss) \o Flatten(Tail(ss))

\* Python's lst[i:j] for 0 <= i <= j (0-based, j exclusive, clipped).
Slice(s, i, j) == SubSeq(s, i + 1, Min(j, Len(s)))

Digit == {"0", "1", "2", "3", "4", "5", "6", "7", "8", "9"}

DigitVal(c) ==
    CASE c = "0" -> 0 [] c = "1" -> 1 [] c = "2" -> 2 [] c = "3" -> 3
      [] c = "4" -> 4 [] c = "5" -> 5 [] c = "6" -> 6 [] c = "7" -> 7
      [] c = "8" -> 8 [] c = "9" -> 9

\* str.strip() restricted to the blank.
RECURSIVE LStrip(_)
LStrip(s) == IF s # <<>> /\ Head(s) = " " THEN LStrip(Tail(s)) ELSE s

RECURSIVE RStrip(_)
RStrip(s) ==
    IF s # <<>> /\ s[Len(s)] = " " THEN RStrip(SubSeq(s, 1, Len(s) - 1)) ELSE s

RECURSIVE DigitsValue(_, _)
DigitsValue(s, acc) ==
    IF s = <<>> THEN acc ELSE DigitsValue(Tail(s), 10 * acc + DigitVal(Head(s)))

\* Python's int(str): blanks stripped, an optional sign, then one or more
\* decimal digits; anything else raises ValueError (ok = FALSE).
int(s) ==
    LET t == RStrip(LStrip(s))
        signed == t # <<>> /\ Head(t) \in {"+", "-"}
        body == IF signed THEN Tail(t) ELSE t
    IN  IF body # <<>> /\ \A i \in 1..Len(body) : body[i] \in Digit
        THEN [ok |-> TRUE,
              val |-> IF signed /\ Head(t) = "-"
                      THEN 0 - DigitsValue(body, 0) ELSE DigitsValue(body, 0)]
        ELSE [ok |-> FALSE, val |-> 0]

\* ------------------------------------------------------------- normalisers
\* The quantity branch of create_stocks: ">10" is 100, "1" is 0, anything
\* else goes through int().
count_gt10_as_10(count) ==
    IF count = <<">", "1", "0">> THEN [ok |-> TRUE, val |-> 10]
    ELSE int(count)

NormalizeCount(count) ==
    IF count = <<">", "1", "0">> THEN [ok |-> TRUE, val |-> 100]
    ELSE IF count = <<"1">> THEN [ok |-> TRUE, val |-> 0]
    ELSE int(count)

\* price.split(".")[0]
RECURSIVE BeforeDot(_)
BeforeDot(s) ==
    IF s = <<>> \/ Head(s) = "." THEN <<>> ELSE <<Head(s)>> \o BeforeDot(Tail(s))

\* re.sub("[^0-9]", "", ...)
RECURSIVE OnlyDigits(_)
OnlyDigits(s) ==
    IF s = <<>> THEN <<>>
    ELSE IF Head(s) \in Digit THEN <<Head(s)>> \o OnlyDigits(Tail(s))
    ELSE OnlyDigits(Tail(s))

price_conversion(price) == OnlyDigits(BeforeDot(price))

\* ------------------------------------------------------------- partitioner
RECURSIVE divide_from(_, _, _)
divide_from(l, size, i) ==
    IF i >= Len(l) THEN <<>>
    ELSE <<Slice(l, i, i + size)>> \o divide_from(l, size, i + size)

divide_oversized(l, size) == divide_from(l, size + 1, 0)

\* for i in range(0, len(lst), n): yield lst[i : i + n]
divide(l, size) == divide_from(l, size, 0)

\* -------------------------------------------------------------- reconciler
\* A snapshot row: sku is the row's "Код", count its "Количество" and price
\* its "Цена", the last two as character sequences.
Row(sku, count, price) == [sku |-> sku, count |-> count, price |-> price]

\* list.remove(x): drops the first occurrence of x.
RECURSIVE RemoveFirst(_, _)
RemoveFirst(s, x) ==
    IF s = <<>> THEN <<>>
    ELSE IF Head(s) = x THEN Tail(s)
    ELSE <<Head(s)>> \o RemoveFirst(Tail(s), x)

remove_nothing(ids, x) == ids

remove(ids, x) == RemoveFirst(ids, x)

WAREHOUSE == "warehouse"
DATE == "date"

seller_stock(offer_id, stock) == [offer_id |-> offer_id, stock |-> stock]

market_stock(sku, warehouse_id, stock, date) ==
    [sku |-> sku, warehouseId |-> warehouse_id,
     items |-> <<[count |-> stock, type |-> "FIT", updatedAt |-> date]>>]

listed_always(sku, ids) == TRUE

\* str(watch.get("Код")) in offer_ids
listed(sku, ids) == sku \in Range(ids)

\* The first loop of seller.create_stocks; ok = FALSE when int() raised.
RECURSIVE seller_scan(_, _, _)
seller_scan(ws, ids, out) ==
    IF ws = <<>> THEN [ok |-> TRUE, stocks |-> out, offer_ids |-> ids]
    ELSE LET watch == Head(ws) IN
         IF listed(watch.sku, ids)
         THEN LET c == NormalizeCount(watch.count) IN
              IF c.ok
              THEN seller_scan(Tail(ws), remove(ids, watch.sku),
                               Append(out, seller_stock(watch.sku, c.val)))
              ELSE [ok |-> FALSE, stocks |-> out, offer_ids |-> ids]
         ELSE seller_scan(Tail(ws), ids, out)

\* seller.create_stocks: the stock updates and offer_ids as the call leaves it.
seller_create_stocks(ws, ids) ==
    LET r == seller_scan(ws, ids, <<>>) IN
    IF r.ok
    THEN [ok |-> TRUE, offer_ids |-> r.offer_ids,
          stocks |-> r.stocks \o [i \in 1..Len(r.offer_ids) |->
                                     seller_stock(r.offer_ids[i], 0)]]
    ELSE [ok |-> FALSE, offer_ids |-> r.offer_ids, stocks |-> <<>>]

RECURSIVE market_scan(_, _, _, _, _)
market_scan(ws, ids, warehouse_id, date, out) ==
    IF ws = <<>> THEN [ok |-> TRUE, stocks |-> out, offer_ids |-> ids]
    ELSE LET watch == Head(ws) IN
         IF listed(watch.sku, ids)
         THEN LET c == NormalizeCount(watch.count) IN
              IF c.ok
              THEN market_scan(Tail(ws), remove(ids, watch.sku), warehouse_id, date,
                       Append(out, market_stock(watch.sku, warehouse_id, c.val, date)))
              ELSE [ok |-> FALSE, stocks |-> out, offer_ids |-> ids]
         ELSE market_scan(Tail(ws), ids, warehouse_id, date, out)

market_create_stocks(ws, ids, warehouse_id) ==
    LET r == market_scan(ws, ids, warehouse_id, DATE, <<>>) IN
    IF r.ok
    THEN [ok |-> TRUE, offer_ids |-> r.offer_ids,
          stocks |-> r.stocks \o [i \in 1..Len(r.offer_ids) |->
                        market_stock(r.offer_ids[i], warehouse_id, 0, DATE)]]
    ELSE [ok |-> FALSE, offer_ids |-> r.offer_ids, stocks |-> <<>>]

seller_price(offer_id, price) ==
    [auto_action_enabled |-> "UNKNOWN", currency_code |-> "RUB",
     offer_id |-> offer_id, old_price |-> <<"0">>, price |-> price]

market_price(id, value) ==
    [id |-> id, price |-> [value |-> value, currencyId |-> "RUR"]]

\* seller.create_prices: the price stays a digit string, nothing can raise.
RECURSIVE seller_create_prices(_, _)
seller_create_prices(ws, ids) ==
    IF ws = <<>> THEN [ok |-> TRUE, prices |-> <<>>]
    ELSE LET watch == Head(ws)
             rest == seller_create_prices(Tail(ws), ids)
         IN  IF listed(watch.sku, ids)
             THEN [ok |-> TRUE,
                   prices |-> <<seller_price(watch.sku, price_conversion(watch.price))>>
                              \o rest.prices]
             ELSE rest

\* market.create_prices: int() of the digit string raises on the first row
\* whose digit string is empty.
RECURSIVE market_prices_scan(_, _, _)
market_prices_scan(ws, ids, out) ==
    IF ws = <<>> THEN [ok |-> TRUE, prices |-> out]
    ELSE LET watch == Head(ws) IN
         IF listed(watch.sku, ids)
         THEN LET v == int(price_conversion(watch.price)) IN
              IF v.ok
              THEN market_prices_scan(Tail(ws), ids,
                                      Append(out, market_price(watch.sku, v.val)))
              ELSE [ok |-> FALSE, prices |-> <<>>]
         ELSE market_prices_scan(Tail(ws), ids, out)

market_create_prices(ws, ids) == market_prices_scan(ws, ids, <<>>)

\* ------------------------------------------------------------- environment
SKUs == {"A", "B", "C"}

\* The remote catalogs: offer ids are unique within a catalog.
Catalogs ==
    UNION {{c \in [1..m -> SKUs] : \A i, j \in 1..m : c[i] = c[j] => i = j}
           : m \in 0..MaxCatalog}

\* The rows a snapshot is made of.
Rows ==
    { Row("A", <<">", "1", "0">>, <<"1", "0", "0", ".", "0", "0">>),
      Row("A", <<"7">>, <<"1", "9", "9">>),
      Row("B", <<"1">>, <<"5", "'", "9", "9", "0", ".", "0", "0", " ", "r", "u", "b", ".">>),
      Row("B", <<"-", "5">>, <<"1", "9", "9">>),
      Row("C", <<"a", "b", "c">>, <<"1", "9", "9">>),
      Row("C", <<"1", "2">>, <<".", "5", "0">>) }

Snapshots == UNION {[1..m -> Rows] : m \in 0..MaxSnapshot}

SellerProgs == {"seller_upload_stocks", "seller_upload_prices", "seller_main"}
MarketProgs == {"market_upload_stocks", "market_upload_prices", "market_main"}
Progs == SellerProgs \cup MarketProgs
UploadStocks == {"seller_upload_stocks", "market_upload_stocks"}
UploadPrices == {"seller_upload_prices", "market_upload_prices"}
Mains == {"seller_main", "market_main"}

\* Number of catalogs a run walks: market.main handles the FBS and the DBS
\* campaign, every other run one target.
Targets(p) == IF p = "market_main" THEN 2 ELSE 1

\* The position reached after the page asked with cursor c.
PageEnd(c, cat) == Min(c + PageLimit, Len(cat))

\* The cursors the endpoint may answer with: the position reached, or, once
\* the catalog is exhausted, possibly the empty cursor.
NextCursors(c, cat) ==
    IF PageEnd(c, cat) < Len(cat) THEN {PageEnd(c, cat)}
    ELSE IF c < Len(cat) THEN {0, PageEnd(c, cat)}
    ELSE {0}

\* Answers of seller.get_product_list(last_id, ...) when the request succeeds.
seller_get_product_list(c, cat) ==
    {[items |-> [i \in 1..(PageEnd(c, cat) - c) |-> [offer_id |-> cat[c + i]]],
      total |-> Len(cat), last_id |-> l] : l \in NextCursors(c, cat)}

\* Answers of market.get_product_list(page, ...) when the request succeeds.
market_get_product_list(c, cat) ==
    {[offerMappingEntries |->
          [i \in 1..(PageEnd(c, cat) - c) |-> [offer |-> [shopSku |-> cat[c + i]]]],
      paging |-> [nextPageToken |-> l]] : l \in NextCursors(c, cat)}

Elems == 1..3

\* ------------------------------------------------------------------- state
Init ==
    /\ prog \in Progs
    /\ catalog \in [1..Targets(prog) -> Catalogs]
    /\ watch_remnants \in Snapshots
    /\ pc = "get_offer_ids"
    /\ campaign = 1
    /\ last_id = 0
    /\ product_list = <<>>
    /\ offer_ids = <<>>
    /\ known = <<>>
    /\ stocks = <<>>
    /\ prices = <<>>
    /\ queue = <<>>
    /\ calls = <<>>
    /\ fetch_log = <<>>
    /\ err = "none"
    /\ ret = <<>>
    /\ lst = <<>>
    /\ n = 1
    /\ chunks = <<>>

\* An exception leaves upload_stocks / upload_prices for their caller; main
\* catches it, prints it and returns.
RaiseSwallowed(e) == err' = e /\ pc' = pc

Raise(e) ==
    /\ err' = e
    /\ pc' = IF prog \in Mains THEN "done" ELSE "raised"

\* The step that follows get_offer_ids in each run.
AfterWalk(p) == IF p \in UploadPrices THEN "create_prices" ELSE "create_stocks"

seller_stop_on_cursor(some_prod, pl) == some_prod.last_id = 0

\* The stop test of seller.get_offer_ids: total == len(product_list).
seller_stop(some_prod, pl) == some_prod.total = Len(pl)

\* The stop test of market.get_offer_ids: not page.
market_stop(page) == page = 0

\* One round of the loop of seller.get_offer_ids, and its tail on the last.
seller_get_offer_ids ==
    /\ prog \in SellerProgs
    /\ pc = "get_offer_ids"
    /\ \/ \E some_prod \in seller_get_product_list(last_id, catalog[campaign]) :
            LET pl == product_list \o some_prod.items IN
            /\ product_list' = pl
            /\ last_id' = some_prod.last_id
            /\ calls' = Append(calls, [op |-> "get_product_list", ok |-> TRUE])
            /\ fetch_log' = Append(fetch_log,
                   [cursor |-> last_id, next |-> some_prod.last_id,
                    total |-> some_prod.total, count |-> Len(pl),
                    skus |-> [i \in 1..Len(some_prod.items) |->
                                 some_prod.items[i].offer_id]])
            /\ IF seller_stop(some_prod, pl)
               THEN /\ offer_ids' = [i \in 1..Len(pl) |-> pl[i].offer_id]
                    /\ known' = offer_ids'
                    /\ pc' = AfterWalk(prog)
               ELSE UNCHANGED <<offer_ids, known, pc>>
            /\ UNCHANGED err
       \/ /\ calls' = Append(calls, [op |-> "get_product_list", ok |-> FALSE])
          /\ Raise("TransportError")
          /\ UNCHANGED <<product_list, last_id, fetch_log, offer_ids, known>>
    /\ UNCHANGED <<prog, catalog, watch_remnants, campaign, stocks, prices,
                   queue, ret, lst, n, chunks>>

\* One round of the loop of market.get_offer_ids, and its tail on the last.
market_get_offer_ids ==
    /\ prog \in MarketProgs
    /\ pc = "get_offer_ids"
    /\ \/ \E some_prod \in market_get_product_list(last_id, catalog[campaign]) :
            LET pl == product_list \o some_prod.offerMappingEntries
                page == some_prod.paging.nextPageToken
            IN
            /\ product_list' = pl
            /\ last_id' = page
            /\ calls' = Append(calls, [op |-> "get_product_list", ok |-> TRUE])
            /\ fetch_log' = Append(fetch_log,
                   [cursor |-> last_id, next |-> page,
                    skus |-> [i \in 1..Len(some_prod.offerMappingEntries) |->
                                 some_prod.offerMappingEntries[i].offer.shopSku]])
            /\ IF market_stop(page)
               THEN /\ offer_ids' = [i \in 1..Len(pl) |-> pl[i].offer.shopSku]
                    /\ known' = offer_ids'
                    /\ pc' = AfterWalk(prog)
               ELSE UNCHANGED <<offer_ids, known, pc>>
            /\ UNCHANGED err
       \/ /\ calls' = Append(calls, [op |-> "get_product_list", ok |-> FALSE])
          /\ Raise("TransportError")
          /\ UNCHANGED <<product_list, last_id, fetch_log, offer_ids, known>>
    /\ UNCHANGED <<prog, catalog, watch_remnants, campaign, stocks, prices,
                   queue, ret, lst, n, chunks>>

\* The quantity carried by a stock update of either marketplace.
Quantity(u) == IF prog \in SellerProgs THEN u.stock ELSE u.items[1].count

\* The SKU carried by a stock update / a price update of either marketplace.
StockSku(u) == IF prog \in SellerProgs THEN u.offer_id ELSE u.sku
PriceSku(u) == IF prog \in SellerProgs THEN u.offer_id ELSE u.id

create_stocks(ws, ids) ==
    IF prog \in SellerProgs THEN seller_create_stocks(ws, ids)
    ELSE market_create_stocks(ws, ids, WAREHOUSE)

create_prices(ws, ids) ==
    IF prog \in SellerProgs THEN seller_create_prices(ws, ids)
    ELSE market_create_prices(ws, ids)

\* list(filter(lambda stock: stock.get("stock") != 0, stocks))
not_empty(ss) == SelectSeq(ss, LAMBDA u : Quantity(u) # 0)

\* stocks = create_stocks(watch_remnants, offer_ids) and the list(divide(...))
\* that heads the dispatch loop; offer_ids is changed in place.
CreateStocks ==
    /\ pc = "create_stocks"
    /\ LET r == create_stocks(watch_remnants, offer_ids) IN
       /\ offer_ids' = r.offer_ids
       /\ IF r.ok
          THEN /\ stocks' = r.stocks
               /\ queue' = divide(r.stocks, StockBatch)
               /\ pc' = "update_stocks"
               /\ UNCHANGED err
          ELSE /\ Raise("ValueError")
               /\ UNCHANGED <<stocks, queue>>
    /\ UNCHANGED <<prog, catalog, watch_remnants, campaign, last_id, product_list,
                   known, prices, calls, fetch_log, ret, lst, n, chunks>>

\* One round of "for some_stock in ...: update_stocks(some_stock, ...)".
UpdateStocks ==
    /\ pc = "update_stocks"
    /\ queue # <<>>
    /\ \/ /\ calls' = Append(calls, [op |-> "update_stocks", ok |-> TRUE,
                                     campaign |-> campaign, batch |-> Head(queue)])
          /\ queue' = Tail(queue)
          /\ UNCHANGED <<pc, err>>
       \/ /\ calls' = Append(calls, [op |-> "update_stocks", ok |-> FALSE,
                                     campaign |-> campaign, batch |-> Head(queue)])
          /\ Raise("TransportError")
          /\ UNCHANGED queue
    /\ UNCHANGED <<prog, catalog, watch_remnants, campaign, last_id, product_list,
                   offer_ids, known, stocks, prices, fetch_log, ret, lst, n, chunks>>

\* The end of upload_stocks: return not_empty, stocks.
upload_stocks_return ==
    /\ prog \in UploadStocks
    /\ pc = "update_stocks"
    /\ queue = <<>>
    /\ ret' = <<not_empty(stocks), stocks>>
    /\ pc' = "done"
    /\ UNCHANGED <<prog, catalog, watch_remnants, campaign, last_id, product_list,
                   offer_ids, known, stocks, prices, queue, calls, fetch_log, err,
                   lst, n, chunks>>

\* seller.main goes on to the prices once the stock loop is over.
seller_main_prices ==
    /\ prog = "seller_main"
    /\ pc = "update_stocks"
    /\ queue = <<>>
    /\ pc' = "create_prices"
    /\ UNCHANGED <<prog, catalog, watch_remnants, campaign, last_id, product_list,
                   offer_ids, known, stocks, prices, queue, calls, fetch_log, err,
                   ret, lst, n, chunks>>

\* market.main calls upload_prices(...) without awaiting it, which only makes
\* a coroutine object that never runs; then the DBS campaign follows the FBS
\* one, and main ends after the DBS one.
market_main_next ==
    /\ prog = "market_main"
    /\ pc = "update_stocks"
    /\ queue = <<>>
    /\ IF campaign = 1
       THEN /\ campaign' = 2
            /\ last_id' = 0
            /\ product_list' = <<>>
            /\ fetch_log' = <<>>
            /\ pc' = "get_offer_ids"
       ELSE /\ pc' = "done"
            /\ UNCHANGED <<campaign, last_id, product_list, fetch_log>>
    /\ UNCHANGED <<prog, catalog, watch_remnants, offer_ids, known, stocks, prices,
                   queue, calls, err, ret, lst, n, chunks>>

\* prices = create_prices(watch_remnants, offer_ids) and the list(divide(...))
\* that heads the dispatch loop.
CreatePrices ==
    /\ pc = "create_prices"
    /\ LET r == create_prices(watch_remnants, offer_ids) IN
       IF r.ok
       THEN /\ prices' = r.prices
            /\ queue' = divide(r.prices, PriceBatch)
            /\ pc' = "update_price"
            /\ UNCHANGED err
       ELSE /\ Raise("ValueError")
            /\ UNCHANGED <<prices, queue>>
    /\ UNCHANGED <<prog, catalog, watch_remnants, campaign, last_id, product_list,
                   offer_ids, known, stocks, calls, fetch_log, ret, lst, n, chunks>>

\* One round of "for some_price in ...: update_price(some_price, ...)".
UpdatePrice ==
    /\ pc = "update_price"
    /\ queue # <<>>
    /\ \/ /\ calls' = Append(calls, [op |-> "update_price", ok |-> TRUE,
                                     campaign |-> campaign, batch |-> Head(queue)])
          /\ queue' = Tail(queue)
          /\ UNCHANGED <<pc, err>>
       \/ /\ calls' = Append(calls, [op |-> "update_price", ok |-> FALSE,
                                     campaign |-> campaign, batch |-> Head(queue)])
          /\ Raise("TransportError")
          /\ UNCHANGED queue
    /\ UNCHANGED <<prog, catalog, watch_remnants, campaign, last_id, product_list,
                   offer_ids, known, stocks, prices, fetch_log, ret, lst, n, chunks>>

\* The end of upload_prices: return prices.
upload_prices_return ==
    /\ prog \in UploadPrices
    /\ pc = "update_price"
    /\ queue = <<>>
    /\ ret' = prices
    /\ pc' = "done"
    /\ UNCHANGED <<prog, catalog, watch_remnants, campaign, last_id, product_list,
                   offer_ids, known, stocks, prices, queue, calls, fetch_log, err,
                   lst, n, chunks>>

\* The end of seller.main.
seller_main_return ==
    /\ prog = "seller_main"
    /\ pc = "update_price"
    /\ queue = <<>>
    /\ pc' = "done"
    /\ UNCHANGED <<prog, catalog, watch_remnants, campaign, last_id, product_list,
                   offer_ids, known, stocks, prices, queue, calls, fetch_log, err,
                   ret, lst, n, chunks>>

Next ==
    \/ seller_get_offer_ids
    \/ market_get_offer_ids
    \/ CreateStocks
    \/ UpdateStocks
    \/ upload_stocks_return
    \/ seller_main_prices
    \/ market_main_next
    \/ CreatePrices
    \/ UpdatePrice
    \/ upload_prices_return
    \/ seller_main_return

Spec == Init /\ [][Next]_vars

\* ------------------------------------------------------ divide on its own
InitDivide ==
    /\ lst \in UNION {[1..m -> Elems] : m \in 0..MaxLst}
    /\ n \in 1..MaxN
    /\ chunks = <<>>
    /\ pc = "divide"
    /\ prog = "divide"
    /\ catalog = <<>>
    /\ watch_remnants = <<>>
    /\ campaign = 1
    /\ last_id = 0
    /\ product_list = <<>>
    /\ offer_ids = <<>>
    /\ known = <<>>
    /\ stocks = <<>>
    /\ prices = <<>>
    /\ queue = <<>>
    /\ calls = <<>>
    /\ fetch_log = <<>>
    /\ err = "none"
    /\ ret = <<>>

\* chunks = list(divide(lst, n))
Divide ==
    /\ pc = "divide"
    /\ chunks' = divide(lst, n)
    /\ pc' = "divided"
    /\ UNCHANGED <<prog, catalog, watch_remnants, campaign, last_id, product_list,
                   offer_ids, known, stocks, prices, queue, calls, fetch_log, err,
                   ret, lst, n>>

NextDivide == Divide

SpecDivide == InitDivide /\ [][NextDivide]_vars

\* ------------------------------------------------------------------ claims
\* The SKUs that have a row in the snapshot, and the first row of a SKU.
SnapshotSkus == {watch_remnants[i].sku : i \in 1..Len(watch_remnants)}

FirstRow(sku) ==
    watch_remnants[CHOOSE i \in 1..Len(watch_remnants) :
                      /\ watch_remnants[i].sku = sku
                      /\ \A j \in 1..(i - 1) : watch_remnants[j].sku # sku]

RowsOf(sku) == {i \in 1..Len(watch_remnants) : watch_remnants[i].sku = sku}

StocksOf(sku) == {i \in 1..Len(stocks) : StockSku(stocks[i]) = sku}

PricesOf(sku) == {i \in 1..Len(prices) : PriceSku(prices[i]) = sku}

\* C1: right after create_stocks, every SKU the walk returned has exactly one
\* stock update and every stock update is for a SKU the walk returned.
C1_OneStockPerKnownSku ==
    pc = "update_stocks" =>
        /\ \A sku \in Range(known) : Cardinality(StocksOf(sku)) = 1
        /\ \A i \in 1..Len(stocks) : StockSku(stocks[i]) \in Range(known)

\* A three-SKU catalog of which one SKU was matched by two snapshot rows and
\* the other two were left over.
C1_Witness ==
    /\ pc = "update_stocks"
    /\ Len(known) = 3
    /\ Len(offer_ids) = 2
    /\ Len(watch_remnants) = 2
    /\ watch_remnants[1].sku = watch_remnants[2].sku

\* C2: a main that ends without any failure has dispatched the stock batches
\* in partition order, then price batches that hold a price update for every
\* SKU that is both in the walked catalog and in the snapshot.
OkBatches(op) ==
    LET sel == SelectSeq(calls, LAMBDA c : c.op = op /\ c.ok /\ c.campaign = campaign)
    IN  [i \in 1..Len(sel) |-> sel[i].batch]

C2_MainDispatchesStocksThenPrices ==
    (prog \in Mains /\ pc = "done" /\ err = "none") =>
        /\ OkBatches("update_stocks") = divide(stocks, StockBatch)
        /\ \A i, j \in 1..Len(calls) :
              (/\ calls[i].op = "update_price"
               /\ calls[j].op = "update_stocks"
               /\ calls[i].campaign = calls[j].campaign) => j < i
        /\ \A sku \in Range(known) \cap SnapshotSkus :
              \E b \in Range(OkBatches("update_price")) :
                  \E u \in Range(b) : PriceSku(u) = sku

\* C3: reconciliation gives quantity 0 to every known SKU without a snapshot
\* row, no stock update to a SKU that is not known, and price updates for
\* exactly the SKUs of the given collection that have a snapshot row.
C3_Reconcile ==
    /\ pc = "update_stocks" =>
          /\ \A sku \in Range(known) \ SnapshotSkus :
                /\ StocksOf(sku) # {}
                /\ \A i \in StocksOf(sku) : Quantity(stocks[i]) = 0
          /\ \A i \in 1..Len(stocks) : StockSku(stocks[i]) \in Range(known)
    /\ pc = "update_price" =>
          {PriceSku(prices[i]) : i \in 1..Len(prices)}
              = Range(offer_ids) \cap SnapshotSkus

\* Prices built from a walked catalog that has a SKU without a row, for a
\* snapshot that has a row of a known SKU and a row of an unknown one.
C3_Witness ==
    /\ pc = "update_price"
    /\ prog \in UploadPrices
    /\ Range(known) \ SnapshotSkus # {}
    /\ SnapshotSkus \ Range(known) # {}
    /\ prices # <<>>

\* C4: a known SKU with several snapshot rows gets exactly one stock update
\* and exactly one price update, both from its first row.
C4_FirstDuplicateOnly ==
    /\ pc = "update_stocks" =>
          \A sku \in Range(known) :
              Cardinality(RowsOf(sku)) > 1 =>
                  /\ Cardinality(StocksOf(sku)) = 1
                  /\ \A i \in StocksOf(sku) :
                        Quantity(stocks[i]) = NormalizeCount(FirstRow(sku).count).val
    /\ pc = "update_price" =>
          \A sku \in Range(offer_ids) :
              Cardinality(RowsOf(sku)) > 1 => Cardinality(PricesOf(sku)) = 1

\* C5: the chunks of divide(lst, n) concatenate to lst, all but the last have
\* length n, the last has length 1..n, and an empty list gives no chunk.
C5_DividePartitions ==
    pc = "divided" =>
        /\ Flatten(chunks) = lst
        /\ \A k \in 1..(Len(chunks) - 1) : Len(chunks[k]) = n
        /\ chunks # <<>> =>
              /\ Len(chunks[Len(chunks)]) >= 1
              /\ Len(chunks[Len(chunks)]) <= n
        /\ lst = <<>> => chunks = <<>>

\* Two full chunks followed by a short one.
C5_Witness ==
    /\ pc = "divided"
    /\ Len(chunks) = 3
    /\ n > 1
    /\ Len(chunks[3]) < n

\* A walk is over once its last fetch succeeded and ended the loop.
FetchFailed ==
    /\ calls # <<>>
    /\ calls[Len(calls)].op = "get_product_list"
    /\ ~calls[Len(calls)].ok

WalkOver == fetch_log # <<>> /\ pc # "get_offer_ids" /\ ~FetchFailed

\* The cursors of a walk chain: the first request carries the empty cursor,
\* every later one the cursor of the previous answer; the result is the SKUs
\* of the fetched pages in page order.
CursorChain ==
    /\ fetch_log # <<>> => fetch_log[1].cursor = 0
    /\ \A k \in 2..Len(fetch_log) : fetch_log[k].cursor = fetch_log[k - 1].next
    /\ WalkOver =>
          known = Flatten([k \in 1..Len(fetch_log) |-> fetch_log[k].skus])

\* C6 as stated: the walk of both files goes on exactly while the answer's
\* next cursor is non-empty and ends right after the first empty one.
C6_WalkIsCursorDriven ==
    /\ CursorChain
    /\ \A k \in 1..(Len(fetch_log) - 1) : fetch_log[k].next # 0
    /\ pc = "get_offer_ids" => \A k \in 1..Len(fetch_log) : fetch_log[k].next # 0
    /\ WalkOver => fetch_log[Len(fetch_log)].next = 0

\* What an answer must look like for the walk to end after it: for market.py
\* an empty next cursor, for seller.py a total equal to the number of items
\* accumulated so far.
EndsWalk(e) == IF prog \in SellerProgs THEN e.total = e.count ELSE e.next = 0

\* C6 amended: the cursors chain from the empty cursor, the result is the
\* fetched SKUs in page order, and the walk goes on exactly while the answers
\* do not end it: market.py ends right after the first answer with an empty
\* next cursor, seller.py right after the first answer whose total equals the
\* number of items accumulated, whatever its last_id.
C6_WalkEnds ==
    /\ CursorChain
    /\ \A k \in 1..(Len(fetch_log) - 1) : ~EndsWalk(fetch_log[k])
    /\ pc = "get_offer_ids" => \A k \in 1..Len(fetch_log) : ~EndsWalk(fetch_log[k])
    /\ WalkOver => EndsWalk(fetch_log[Len(fetch_log)])

\* A seller walk of several pages that ended on an answer with a non-empty
\* last_id.
C6_Witness ==
    /\ WalkOver
    /\ prog \in SellerProgs
    /\ Len(fetch_log) >= 2
    /\ fetch_log[Len(fetch_log)].next # 0

\* C7: every stock update built by create_stocks has a quantity >= 0.
C7_QuantityNonNegative ==
    pc = "update_stocks" => \A i \in 1..Len(stocks) : Quantity(stocks[i]) >= 0

\* The quantities the claim gives for the tokens of Rows that parse.
ExpectedQuantity(count) ==
    CASE count = <<">", "1", "0">> -> 100
      [] count = <<"1">> -> 0
      [] count = <<"7">> -> 7
      [] count = <<"1", "2">> -> 12
      [] count = <<"-", "5">> -> 0 - 5

ParsesAsInteger(count) == count # <<"a", "b", "c">>

\* The known SKUs whose first snapshot row create_stocks normalises.
MatchedSkus == Range(known) \cap SnapshotSkus

\* C8: create_stocks turns ">10" into 100, "1" into 0 and any other token
\* into its base-10 value; a matched row whose token is not an integer ends
\* the call with ValueError and no stock updates.
C8_QuantityNormalization ==
    /\ pc = "update_stocks" =>
          \A sku \in MatchedSkus :
              /\ ParsesAsInteger(FirstRow(sku).count)
              /\ \A i \in StocksOf(sku) :
                    Quantity(stocks[i]) = ExpectedQuantity(FirstRow(sku).count)
              /\ StocksOf(sku) # {}
    /\ (/\ prog \notin UploadPrices
        /\ pc \in {"done", "raised"}
        /\ ~FetchFailed
        /\ \E sku \in MatchedSkus : ~ParsesAsInteger(FirstRow(sku).count))
          => err = "ValueError"

\* Stock updates built from a row with ">10" and a row with "1".
C8_Witness ==
    /\ pc = "update_stocks"
    /\ \E a, b \in MatchedSkus :
          /\ FirstRow(a).count = <<">", "1", "0">>
          /\ FirstRow(b).count = <<"1">>

\* C9: a failed fetch or dispatch is the last call of the run: nothing is
\* dispatched or retried after it, a failed fetch has no dispatch before it,
\* and upload_stocks / upload_prices end by raising the transport error.
C9_TransportErrorAborts ==
    \A k \in 1..Len(calls) :
        ~calls[k].ok =>
            /\ k = Len(calls)
            /\ err = "TransportError"
            /\ prog \in UploadStocks \cup UploadPrices => pc = "raised"
            /\ (calls[k].op = "get_product_list" /\ prog # "market_main") =>
                  \A j \in 1..Len(calls) : calls[j].op = "get_product_list"

\* upload_stocks raised on its first dispatch with batches still to send.
C9_Witness ==
    /\ prog \in UploadStocks
    /\ pc = "raised"
    /\ Len(queue) >= 2
    /\ calls[Len(calls)].op = "update_stocks"
    /\ ~calls[Len(calls)].ok

\* C10: the first list returned by upload_stocks is the second list filtered
\* to the updates with quantity > 0.
C10_NotEmptyIsPositive ==
    (prog \in UploadStocks /\ pc = "done") =>
        ret[1] = SelectSeq(ret[2], LAMBDA u : Quantity(u) > 0)

\* The rows create_prices builds a price update from, in snapshot order.
ListedRows == SelectSeq(watch_remnants, LAMBDA w : w.sku \in Range(offer_ids))

\* A raw price that has a digit before its first "." (or anywhere, when it
\* has no ".").
DigitBeforeDot(price) ==
    \E i \in 1..Len(price) :
        /\ price[i] \in Digit
        /\ \A j \in 1..(i - 1) : price[j] # "."

\* The integers the claim gives for the raw prices of Rows that have such a
\* digit ("rub." stands for the currency word after the decimals).
ExpectedPrice(price) ==
    CASE price = <<"1", "0", "0", ".", "0", "0">> -> 100
      [] price = <<"1", "9", "9">> -> 199
      [] price = <<"5", "'", "9", "9", "0", ".", "0", "0", " ", "r", "u", "b", ".">>
            -> 5990

\* The amount of a price update: seller.py keeps it as a digit string,
\* market.py as an integer.
Amount(u) ==
    IF prog \in SellerProgs THEN int(u.price) ELSE [ok |-> TRUE, val |-> u.price.value]

\* C11: in both files create_prices never builds a price update from a raw
\* price without a digit before its first ".": the call fails with ValueError;
\* every price update carries the integer formed by the digits before the
\* first "." of its row's price.
C11_PriceNormalization ==
    /\ pc = "update_price" =>
          /\ Len(prices) = Len(ListedRows)
          /\ \A k \in 1..Len(ListedRows) :
                /\ DigitBeforeDot(ListedRows[k].price)
                /\ Amount(prices[k]) =
                      [ok |-> TRUE, val |-> ExpectedPrice(ListedRows[k].price)]
    /\ (/\ prog \in UploadPrices
        /\ pc \in {"done", "raised"}
        /\ ~FetchFailed
        /\ \E k \in 1..Len(ListedRows) : ~DigitBeforeDot(ListedRows[k].price))
          => err = "ValueError"

\* C12: create_stocks leaves the caller's offer_ids as the walk returned it,
\* so the create_prices call that follows it in seller.main builds a price
\* update for every known SKU that has a snapshot row.
C12_OfferIdsUnchanged ==
    /\ pc = "update_stocks" => offer_ids = known
    /\ (prog = "seller_main" /\ pc = "update_price") =>
          /\ offer_ids = known
          /\ \A sku \in MatchedSkus : PricesOf(sku) # {}

====
